---- MODULE Spec2Model ----
(***************************************************************************)
(* Free-time-slot analyzer of the travel backend                           *)
(* (itinerary_ai_service.py) and the request path that calls it            *)
(* (main.py, POST /ai/itinerary/analyze).                                  *)
(*                                                                         *)
(* A time-of-day value is a Python str or None.  Comparisons between       *)
(* times are the code's str comparisons (lexicographic by code point);     *)
(* minutes are obtained only through time_to_minutes (strptime "%H:%M").   *)
(* Dates are day numbers.  slot_day and fetch_failed are history           *)
(* variables: they record what happened and are never read by an action.   *)
(***************************************************************************)
EXTENDS Integers, Sequences, FiniteSets

(***************************************************************************)
(* Bounds of the model.                                                    *)
(***************************************************************************)
MaxDate == 3          \* calendar days 1..MaxDate
MaxDayBookings == 2   \* longest list of bookings of one day
MaxTripBookings == 2  \* longest list of stays
MaxBusyBookings == 3  \* longest list of bookings of a busy day
MaxTypedBookings == 2 \* longest list of described bookings
MaxConcurrentBookings == 2  \* longest list of a concurrent call
MaxMinutes == 1445    \* largest argument of minutes_to_time

Inv == {1, 2}         \* invocations (requests / calls)
Dates == 1..MaxDate

(***************************************************************************)
(* Python str values.  A time value is named by its text; Chars gives the  *)
(* characters the str operations work on.  None is the absent value.       *)
(***************************************************************************)
None == "None"
IsNone(t) == t = None

T0800 == "08:00"
T0900 == "09:00"
T0930 == "09:30"
T1000 == "10:00"
T1100 == "11:00"
T1400 == "14:00"
T1500 == "15:00"
T1600 == "16:00"
T1800 == "18:00"
T2130 == "21:30"
T2200 == "22:00"
T2300 == "23:00"
Malformed == "zz"

HHMM(a, b, c, d) == <<a, b, ":", c, d>>

Chars(t) ==
    CASE t = "08:00" -> HHMM("0", "8", "0", "0")
      [] t = "09:00" -> HHMM("0", "9", "0", "0")
      [] t = "09:30" -> HHMM("0", "9", "3", "0")
      [] t = "10:00" -> HHMM("1", "0", "0", "0")
      [] t = "11:00" -> HHMM("1", "1", "0", "0")
      [] t = "14:00" -> HHMM("1", "4", "0", "0")
      [] t = "15:00" -> HHMM("1", "5", "0", "0")
      [] t = "16:00" -> HHMM("1", "6", "0", "0")
      [] t = "18:00" -> HHMM("1", "8", "0", "0")
      [] t = "21:30" -> HHMM("2", "1", "3", "0")
      [] t = "22:00" -> HHMM("2", "2", "0", "0")
      [] t = "23:00" -> HHMM("2", "3", "0", "0")
      [] t = "zz" -> <<"z", "z">>

DigitChars == <<"0", "1", "2", "3", "4", "5", "6", "7", "8", "9">>
IsDigit(c) == \E k \in 1..10 : DigitChars[k] = c
DigitVal(c) == (CHOOSE k \in 1..10 : DigitChars[k] = c) - 1

\* code point of a character
Ord(c) == IF IsDigit(c) THEN 48 + DigitVal(c)
          ELSE IF c = ":" THEN 58
          ELSE 122

\* lexicographic order of two character sequences
SeqLess(x, y) ==
    \/ \E k \in 1..Len(y) :
          /\ k <= Len(x)
          /\ \A j \in 1..(k - 1) : x[j] = y[j]
          /\ Ord(x[k]) < Ord(y[k])
    \/ /\ Len(x) < Len(y)
       /\ \A j \in 1..Len(x) : x[j] = y[j]

\* Python's a < b on two str values
StrLess(a, b) == SeqLess(Chars(a), Chars(b))

\* value of a run of one or two digits
Num(s) == IF Len(s) = 1 THEN DigitVal(s[1])
          ELSE 10 * DigitVal(s[1]) + DigitVal(s[2])

AllDigits(s) == \A k \in 1..Len(s) : IsDigit(s[k])

\* datetime.strptime(x, "%H:%M") succeeds with the colon at position p: one
\* or two digits (0..23), a colon, one or two digits (0..59), nothing else
ParsesAt(x, p) ==
    /\ p \in 2..3
    /\ p < Len(x)
    /\ Len(x) - p \in 1..2
    /\ x[p] = ":"
    /\ AllDigits(SubSeq(x, 1, p - 1))
    /\ AllDigits(SubSeq(x, p + 1, Len(x)))
    /\ Num(SubSeq(x, 1, p - 1)) <= 23
    /\ Num(SubSeq(x, p + 1, Len(x))) <= 59

Parses(t) == ~IsNone(t) /\ \E p \in 2..3 : ParsesAt(Chars(t), p)

\* strptime raises for None and for a string that does not parse; the bare
\* except returns 0
time_to_minutes(t) ==
    IF Parses(t)
    THEN LET x == Chars(t)
             p == CHOOSE q \in 2..3 : ParsesAt(x, q)
         IN  Num(SubSeq(x, 1, p - 1)) * 60 + Num(SubSeq(x, p + 1, Len(x)))
    ELSE 0

(***************************************************************************)
(* The conversions called on their own, with any Python value.             *)
(***************************************************************************)
PyStr(x) == [type |-> "str", chars |-> x]
PyInt(n) == [type |-> "int", value |-> n]
PyNone == [type |-> "NoneType"]
\* an exception leaves the call
PyRaised == [type |-> "raised"]

\* strptime(x, "%H:%M") succeeds on the characters x
ParsesChars(x) == \E p \in 2..3 : ParsesAt(x, p)

\* hour * 60 + minute of characters that parse
MinutesOfChars(x) ==
    LET p == CHOOSE q \in 2..3 : ParsesAt(x, q)
    IN  Num(SubSeq(x, 1, p - 1)) * 60 + Num(SubSeq(x, p + 1, Len(x)))

\* variant: the except clause catches ValueError only, the TypeError of a
\* value that is not a str leaves the call
time_to_minutes_value_error_only(v) ==
    IF v.type # "str" THEN PyRaised
    ELSE IF ParsesChars(v.chars) THEN PyInt(MinutesOfChars(v.chars))
    ELSE PyInt(0)

\* variant: the format is "%I:%M", the hour of a 12-hour clock (1..12,
\* 12 read as 0)
time_to_minutes_12h(v) ==
    IF v.type = "str" /\ ParsesChars(v.chars)
    THEN LET n == MinutesOfChars(v.chars)
         IN  IF n \div 60 \in 1..12
             THEN PyInt(((n \div 60) % 12) * 60 + (n % 60))
             ELSE PyInt(0)
    ELSE PyInt(0)

\* time_to_minutes(v) for any value v: strptime raises TypeError for a
\* value that is not a str and ValueError for a str that does not parse;
\* the bare except returns 0
time_to_minutes_of(v) ==
    IF v.type = "str" /\ ParsesChars(v.chars)
    THEN PyInt(MinutesOfChars(v.chars))
    ELSE PyInt(0)

\* the decimal digits of n >= 0
RECURSIVE Decimal(_)
Decimal(n) ==
    IF n < 10 THEN <<DigitChars[n + 1]>>
    ELSE Decimal(n \div 10) \o <<DigitChars[(n % 10) + 1]>>

\* format(n, "02d") for n >= 0: at least two characters, padded with "0"
Format02d(n) == IF n < 10 THEN <<"0">> \o Decimal(n) ELSE Decimal(n)

\* variant: the hour is not padded
minutes_to_time_unpadded(v) ==
    LET hours == v.value \div 60
        mins == v.value % 60
    IN  PyStr(Decimal(hours) \o <<":">> \o Format02d(mins))

\* minutes_to_time(v) for an int v >= 0
minutes_to_time(v) ==
    LET hours == v.value \div 60
        mins == v.value % 60
    IN  PyStr(Format02d(hours) \o <<":">> \o Format02d(mins))

(***************************************************************************)
(* The time values of the model, and the str operations tabulated over     *)
(* them (evaluated once).                                                  *)
(***************************************************************************)
\* well-formed times: before, at the edges of, inside and after 09:00-22:00
DayTimes == {T0800, T0930, T1000, T1100, T2130, T2300}
\* a well-formed time, a malformed string, an absent value
OddTimes == {T1000, Malformed, None}
\* the times of a busy day, all inside 09:00-22:00
BusyTimes == {T1000, T1100, T1500, T1600}

DayStart == T0900
DayEnd == T2200
\* variant: the free-day slot runs to the end of the day window
FreeDayEndLate == T2200
FreeDayEnd == T1800

TimeValues ==
    DayTimes \cup OddTimes \cup BusyTimes
        \cup {T1400, DayStart, DayEnd, FreeDayEnd}

ParsesTable == [t \in TimeValues |-> Parses(t)]
MinutesTable == [t \in TimeValues |-> time_to_minutes(t)]
StrLessTable ==
    [a \in TimeValues \ {None} |-> [b \in TimeValues \ {None} |-> StrLess(a, b)]]

WellFormedTime(t) == ParsesTable[t]
Minutes(t) == MinutesTable[t]
Lt(a, b) == StrLessTable[a][b]

(***************************************************************************)
(* Policy literals of find_daily_free_slots / analyze_free_time_slots.     *)
(***************************************************************************)
FreeDayMinutes == 540
MinGap == 60

FreeTimeSlot(s, e, d, c) ==
    [start_time |-> s, end_time |-> e, duration_minutes |-> d, context |-> c]

FreeDaySlot ==
    FreeTimeSlot(DayStart, FreeDayEnd, FreeDayMinutes,
                 "Free day - no bookings scheduled")

(***************************************************************************)
(* Sorting.  sorted() and list.sort() are stable: an element goes after    *)
(* the others with a smaller key and after the earlier ones with an equal  *)
(* key.                                                                    *)
(***************************************************************************)
\* tuple order of the key (start_date, start_time): the first components
\* that differ are compared
KeyLess(a, b) ==
    \/ a.start_date < b.start_date
    \/ /\ a.start_date = b.start_date
       /\ a.start_time # b.start_time
       /\ Lt(a.start_time, b.start_time)

\* sorted(bookings, key=...) raises TypeError: two keys with equal dates
\* reach the comparison of a None with a str
SortedRaises(bks) ==
    \E i, j \in 1..Len(bks) :
        /\ bks[i].start_date = bks[j].start_date
        /\ IsNone(bks[i].start_time)
        /\ ~IsNone(bks[j].start_time)

SortedBookings(bks) ==
    LET n == Len(bks)
        rank(i) == 1 + Cardinality({j \in 1..n \ {i} :
                          \/ KeyLess(bks[j], bks[i])
                          \/ (j < i /\ ~KeyLess(bks[i], bks[j]))})
    IN  [k \in 1..n |-> bks[CHOOSE i \in 1..n : rank(i) = k]]

StartTimeLess(a, b) == Lt(a.start_time, b.start_time)

\* day_bookings.sort(key=start_time) raises TypeError: any comparison
\* that involves a None key
DaySortRaises(day) ==
    /\ Len(day) >= 2
    /\ \E i \in 1..Len(day) : IsNone(day[i].start_time)

DaySorted(day) ==
    LET n == Len(day)
        rank(i) == 1 + Cardinality({j \in 1..n \ {i} :
                          \/ StartTimeLess(day[j], day[i])
                          \/ (j < i /\ ~StartTimeLess(day[i], day[j]))})
    IN  [k \in 1..n |-> day[CHOOSE i \in 1..n : rank(i) = k]]

(***************************************************************************)
(* find_daily_free_slots                                                   *)
(***************************************************************************)
MorningRaises(day) == IsNone(day[1].start_time)

\* variant: the morning slot without the one-hour threshold
MorningSlotsNoThreshold(day) ==
    LET first_booking == day[1]
        duration == Minutes(first_booking.start_time) - Minutes(DayStart)
    IN  IF Lt(DayStart, first_booking.start_time)
        THEN <<FreeTimeSlot(DayStart, first_booking.start_time, duration,
                            "Morning free time")>>
        ELSE <<>>

\* variant: the morning slot needs more than one hour
MorningSlotsStrict(day) ==
    LET first_booking == day[1]
        duration == Minutes(first_booking.start_time) - Minutes(DayStart)
    IN  IF Lt(DayStart, first_booking.start_time) /\ duration > MinGap
        THEN <<FreeTimeSlot(DayStart, first_booking.start_time, duration,
                            "Morning free time")>>
        ELSE <<>>

MorningSlots(day) ==
    LET first_booking == day[1]
        duration == Minutes(first_booking.start_time)
                        - Minutes(DayStart)
    IN  IF Lt(DayStart, first_booking.start_time) /\ duration >= MinGap
        THEN <<FreeTimeSlot(DayStart, first_booking.start_time, duration,
                            "Morning free time")>>
        ELSE <<>>

GapRaises(day) ==
    \E i \in 1..(Len(day) - 1) :
        IsNone(day[i].end_time) \/ IsNone(day[i + 1].start_time)

\* variant: a gap of exactly one hour is not reported
GapSlotStrict(cur, nxt) ==
    LET current_end == cur.end_time
        next_start == nxt.start_time
        duration == Minutes(next_start) - Minutes(current_end)
    IN  IF Lt(current_end, next_start) /\ duration > MinGap
        THEN <<FreeTimeSlot(current_end, next_start, duration,
                            "Gap between bookings")>>
        ELSE <<>>

GapSlot(cur, nxt) ==
    LET current_end == cur.end_time
        next_start == nxt.start_time
        duration == Minutes(next_start) - Minutes(current_end)
    IN  IF Lt(current_end, next_start) /\ duration >= MinGap
        THEN <<FreeTimeSlot(current_end, next_start, duration,
                            "Gap between bookings")>>
        ELSE <<>>

\* variant: every later booking is paired with the first one
RECURSIVE GapSlotsFromFirst(_, _)
GapSlotsFromFirst(day, i) ==
    IF i >= Len(day) THEN <<>>
    ELSE GapSlot(day[1], day[i + 1]) \o GapSlotsFromFirst(day, i + 1)

RECURSIVE GapSlots(_, _)
GapSlots(day, i) ==
    IF i >= Len(day) THEN <<>>
    ELSE GapSlot(day[i], day[i + 1]) \o GapSlots(day, i + 1)

EveningRaises(day) == IsNone(day[Len(day)].end_time)

\* variant: the evening slot is taken from the first booking of the day
EveningSlotsOfFirst(day) ==
    LET last_booking == day[1]
        duration == Minutes(DayEnd) - Minutes(last_booking.end_time)
    IN  IF Lt(last_booking.end_time, DayEnd) /\ duration >= MinGap
        THEN <<FreeTimeSlot(last_booking.end_time, DayEnd, duration,
                            "Evening free time")>>
        ELSE <<>>

EveningSlots(day) ==
    LET last_booking == day[Len(day)]
        duration == Minutes(DayEnd)
                        - Minutes(last_booking.end_time)
    IN  IF Lt(last_booking.end_time, DayEnd) /\ duration >= MinGap
        THEN <<FreeTimeSlot(last_booking.end_time, DayEnd, duration,
                            "Evening free time")>>
        ELSE <<>>

\* variant: the evening check comes before the gap loop
find_daily_free_slots_evening_first(day_bookings) ==
    IF DaySortRaises(day_bookings)
    THEN [raised |-> TRUE, slots |-> <<>>]
    ELSE LET day == DaySorted(day_bookings)
         IN  IF MorningRaises(day) \/ GapRaises(day) \/ EveningRaises(day)
             THEN [raised |-> TRUE, slots |-> <<>>]
             ELSE [raised |-> FALSE,
                   slots |-> MorningSlots(day) \o EveningSlots(day)
                                 \o GapSlots(day, 1)]

\* the call on a non-empty day list: whether it raises, and what it returns
find_daily_free_slots(day_bookings) ==
    IF DaySortRaises(day_bookings)
    THEN [raised |-> TRUE, slots |-> <<>>]
    ELSE LET day == DaySorted(day_bookings)
         IN  IF MorningRaises(day) \/ GapRaises(day) \/ EveningRaises(day)
             THEN [raised |-> TRUE, slots |-> <<>>]
             ELSE [raised |-> FALSE,
                   slots |-> MorningSlots(day) \o GapSlots(day, 1)
                                 \o EveningSlots(day)]

(***************************************************************************)
(* analyze_free_time_slots: the pieces of the day loop                     *)
(***************************************************************************)
\* variant: a booking is not counted on its first day
ActiveAfterStart(b, d) == b.start_date < d /\ d <= b.end_date

\* variant: a flight is counted on its departure day only
ActiveOnByType(b, d) ==
    IF b.booking_type = "flight" THEN b.start_date = d
    ELSE b.start_date <= d /\ d <= b.end_date

\* variant: the day of end_date is not counted
ActiveBeforeEnd(b, d) == b.start_date <= d /\ d < b.end_date

ActiveOn(b, d) == b.start_date <= d /\ d <= b.end_date

DayBookings(sorted, d) == SelectSeq(sorted, LAMBDA b : ActiveOn(b, d))

MinStartDate(bks) ==
    CHOOSE d \in {bks[k].start_date : k \in 1..Len(bks)} :
        \A k \in 1..Len(bks) : d <= bks[k].start_date

MaxEndDate(bks) ==
    CHOOSE d \in {bks[k].end_date : k \in 1..Len(bks)} :
        \A k \in 1..Len(bks) : d >= bks[k].end_date

\* variant: the loop stops before the last day
LoopStopsEarly(cur, last) == cur < last

\* variant: one more pass, for the day after the last day
LoopOneDayMore(cur, last) == cur <= last + 1

LoopContinues(cur, last) == cur <= last

(***************************************************************************)
(* Input domains.                                                          *)
(***************************************************************************)
\* activities of day 1 with well-formed times, in any relation
DayBookingSet ==
    [start_date : {1}, end_date : {1}, start_time : DayTimes,
     end_time : DayTimes, booking_type : {"activity"}]

\* activities of day 1 whose times may be malformed or absent
OddBookingSet ==
    [start_date : {1}, end_date : {1}, start_time : OddTimes,
     end_time : OddTimes, booking_type : {"activity"}]

\* activities of day 1, up to three in the day, each over within the hour
BusyBookingSet ==
    {b \in [start_date : {1}, end_date : {1}, start_time : BusyTimes,
            end_time : BusyTimes, booking_type : {"activity"}] :
        Minutes(b.end_time) - Minutes(b.start_time) \in {0, 60}}

\* stays over any two dates, check-in at 14:00, check-out at 11:00
TripBookingSet ==
    [start_date : Dates, end_date : Dates, start_time : {T1400},
     end_time : {T1100}, booking_type : {"hotel"}]

\* ORDER BY start_date, start_time of the booking query (NULL sorts first)
RowLess(a, b) ==
    \/ a.start_date < b.start_date
    \/ /\ a.start_date = b.start_date
       /\ \/ IsNone(a.start_time) /\ ~IsNone(b.start_time)
          \/ /\ ~IsNone(a.start_time)
             /\ ~IsNone(b.start_time)
             /\ Lt(a.start_time, b.start_time)

Ordered(rows) == \A k \in 1..(Len(rows) - 1) : ~RowLess(rows[k + 1], rows[k])

UserIds == {0, 1}

(***************************************************************************)
(* State.  Every variable is indexed by the invocation.                    *)
(***************************************************************************)
VARIABLES
    entry,            \* "http": a POST request; "call": a direct call
    user_id,          \* request.user_id
    db_rows,          \* what the booking query returns for the user
    fetch_failed,     \* history: fetch_all raised inside get_user_bookings
    bookings,         \* the list analyze_free_time_slots is called with
    sorted_bookings,  \* local of analyze_free_time_slots
    current_date,     \* the day cursor
    end_date,         \* last day of the trip span
    free_slots,       \* the slots collected so far
    slot_day,         \* history: the day each collected slot was emitted for
    pc,               \* position of the invocation
    result,           \* dict returned by analyze_user_itinerary
    http_status,      \* status of the HTTP response, 0 before it is sent
    conv_input,       \* history: the value a chain of conversions began with
    conv_value,       \* the value the last conversion returned
    conv_todo,        \* the conversions still to call, first one first
    tts_pc,           \* position of the text_to_speech call
    speech_key,       \* os.getenv("SPEECH_KEY")
    backup_key,       \* os.getenv("SPEECH_KEY_BACKUP")
    output_format,    \* argument of text_to_speech
    primary_tries,    \* history: how each synthesis with SPEECH_KEY ended
    backup_tries,     \* history: how each synthesis with the backup key ended
    tts_return        \* what text_to_speech returned

\* the conversion calls and the text_to_speech call
other_calls == <<conv_input, conv_value, conv_todo, tts_pc, speech_key,
                 backup_key, output_format, primary_tries, backup_tries,
                 tts_return>>

\* the requests and the calls of the analyzer
analysis == <<entry, user_id, db_rows, fetch_failed, bookings,
              sorted_bookings, current_date, end_date, free_slots, slot_day,
              pc, result, http_status>>

vars == <<entry, user_id, db_rows, fetch_failed, bookings, sorted_bookings,
          current_date, end_date, free_slots, slot_day, pc, result,
          http_status, conv_input, conv_value, conv_todo, tts_pc, speech_key,
          backup_key, output_format, primary_tries, backup_tries, tts_return>>

NoResult == <<>>

\* how an invocation starts
Idle ==
    [entry |-> "none", user_id |-> 0, db_rows |-> <<>>, bookings |-> <<>>,
     pc |-> "off"]

\* a direct call analyze_free_time_slots(bks)
DirectCall(bks) ==
    [entry |-> "call", user_id |-> 0, db_rows |-> <<>>, bookings |-> bks,
     pc |-> "analyze"]

\* a POST /ai/itinerary/analyze for user u whose booking rows are rows
Request(u, rows) ==
    [entry |-> "http", user_id |-> u, db_rows |-> rows, bookings |-> <<>>,
     pc |-> "request"]

NoValue == [type |-> "nothing"]

\* no conversion is called
NoConversion ==
    /\ conv_input = [i \in Inv |-> NoValue]
    /\ conv_value = [i \in Inv |-> NoValue]
    /\ conv_todo = [i \in Inv |-> <<>>]

\* text_to_speech is not called
NoSpeech ==
    /\ tts_pc = "off"
    /\ speech_key = ""
    /\ backup_key = ""
    /\ output_format = "wav"
    /\ primary_tries = <<>>
    /\ backup_tries = <<>>
    /\ tts_return = "none yet"

Frames(start) ==
    /\ entry = [i \in Inv |-> start[i].entry]
    /\ user_id = [i \in Inv |-> start[i].user_id]
    /\ db_rows = [i \in Inv |-> start[i].db_rows]
    /\ bookings = [i \in Inv |-> start[i].bookings]
    /\ pc = [i \in Inv |-> start[i].pc]
    /\ fetch_failed = [i \in Inv |-> FALSE]
    /\ sorted_bookings = [i \in Inv |-> <<>>]
    /\ current_date = [i \in Inv |-> 0]
    /\ end_date = [i \in Inv |-> 0]
    /\ free_slots = [i \in Inv |-> <<>>]
    /\ slot_day = [i \in Inv |-> <<>>]
    /\ result = [i \in Inv |-> NoResult]
    /\ http_status = [i \in Inv |-> 0]

Begin(start) ==
    /\ NoConversion
    /\ NoSpeech
    /\ Frames(start)

Solo(s) == [i \in Inv |-> IF i = 1 THEN s ELSE Idle]

InitCall(S, n) ==
    \E k \in 0..n : \E bks \in [1..k -> S] : Begin(Solo(DirectCall(bks)))

InitRequest(S, n) ==
    \E k \in 0..n : \E rows \in [1..k -> S] :
        Ordered(rows) /\ Begin(Solo(Request(1, rows)))

\* one invocation: a direct call of the analyzer on a list of any of the
\* four kinds, or one request whose rows are stays or activities with
\* possibly malformed or absent times
Init ==
    \/ InitCall(DayBookingSet, MaxDayBookings)
    \/ InitCall(OddBookingSet, MaxDayBookings)
    \/ InitCall(TripBookingSet, MaxTripBookings)
    \/ InitCall(BusyBookingSet, MaxBusyBookings)
    \/ InitRequest(OddBookingSet, MaxDayBookings)
    \/ InitRequest(TripBookingSet, MaxTripBookings)
    \/ Begin(Solo(Request(0, <<>>)))

(***************************************************************************)
(* main.analyze_itinerary and analyze_user_itinerary                       *)
(***************************************************************************)
\* main.py 94-95: a user_id that is 0 or negative is answered with 400
Validate(i) ==
    /\ pc[i] = "request"
    /\ IF user_id[i] <= 0
       THEN /\ http_status' = [http_status EXCEPT ![i] = 400]
            /\ pc' = [pc EXCEPT ![i] = "responded"]
       ELSE /\ pc' = [pc EXCEPT ![i] = "fetch"]
            /\ UNCHANGED http_status
    /\ UNCHANGED other_calls
    /\ UNCHANGED <<entry, user_id, db_rows, fetch_failed, bookings,
                   sorted_bookings, current_date, end_date, free_slots,
                   slot_day, result>>

\* get_user_bookings, fetch_all returns the rows
FetchRows(i) ==
    /\ pc[i] = "fetch"
    /\ bookings' = [bookings EXCEPT ![i] = db_rows[i]]
    /\ pc' = [pc EXCEPT ![i] = "analyze"]
    /\ UNCHANGED other_calls
    /\ UNCHANGED <<entry, user_id, db_rows, fetch_failed, sorted_bookings,
                   current_date, end_date, free_slots, slot_day, result,
                   http_status>>

\* get_user_bookings, fetch_all raises: the except clause returns []
FetchFails(i) ==
    /\ pc[i] = "fetch"
    /\ bookings' = [bookings EXCEPT ![i] = <<>>]
    /\ fetch_failed' = [fetch_failed EXCEPT ![i] = TRUE]
    /\ pc' = [pc EXCEPT ![i] = "analyze"]
    /\ UNCHANGED other_calls
    /\ UNCHANGED <<entry, user_id, db_rows, sorted_bookings, current_date,
                   end_date, free_slots, slot_day, result, http_status>>

(***************************************************************************)
(* analyze_free_time_slots                                                 *)
(***************************************************************************)
\* variant: the result list outlives the call (a module-level list or a
\* mutable default argument)
KeptSlots(i) == free_slots[i]

\* line 94: free_slots = [], a new list at every call
FreshSlots(i) == <<>>

\* variant: bookings.sort(key=...) in place of sorted(bookings, key=...)
ListAfterSortInPlace(bks) == SortedBookings(bks)

\* line 100: sorted() builds a new list; the caller's list after the line
ListAfterSorted(bks) == bks

\* variant: no test for the empty list; min() of an empty sequence raises
CallWithoutEmptyTest(i) ==
    /\ pc[i] = "analyze"
    /\ free_slots' = [free_slots EXCEPT ![i] = FreshSlots(i)]
    /\ slot_day' = [slot_day EXCEPT ![i] = <<>>]
    /\ IF bookings[i] = <<>> \/ SortedRaises(bookings[i])
       THEN /\ pc' = [pc EXCEPT ![i] = "raised"]
            /\ UNCHANGED <<bookings, sorted_bookings, current_date, end_date>>
       ELSE LET sorted == SortedBookings(bookings[i])
            IN  /\ sorted_bookings' = [sorted_bookings EXCEPT ![i] = sorted]
                /\ bookings' =
                       [bookings EXCEPT ![i] = ListAfterSorted(bookings[i])]
                /\ current_date' =
                       [current_date EXCEPT ![i] = MinStartDate(sorted)]
                /\ end_date' = [end_date EXCEPT ![i] = MaxEndDate(sorted)]
                /\ pc' = [pc EXCEPT ![i] = "loop"]
    /\ UNCHANGED other_calls
    /\ UNCHANGED <<entry, user_id, db_rows, fetch_failed, result, http_status>>

\* lines 94-107: new result list, empty list, sort, trip span
Call(i) ==
    /\ pc[i] = "analyze"
    /\ free_slots' = [free_slots EXCEPT ![i] = FreshSlots(i)]
    /\ slot_day' = [slot_day EXCEPT ![i] = <<>>]
    /\ IF bookings[i] = <<>>
       THEN /\ pc' = [pc EXCEPT ![i] = "returned"]
            /\ UNCHANGED <<bookings, sorted_bookings, current_date, end_date>>
       ELSE IF SortedRaises(bookings[i])
       THEN /\ pc' = [pc EXCEPT ![i] = "raised"]
            /\ UNCHANGED <<bookings, sorted_bookings, current_date, end_date>>
       ELSE LET sorted == SortedBookings(bookings[i])
            IN  /\ sorted_bookings' = [sorted_bookings EXCEPT ![i] = sorted]
                /\ bookings' =
                       [bookings EXCEPT ![i] = ListAfterSorted(bookings[i])]
                /\ current_date' =
                       [current_date EXCEPT ![i] = MinStartDate(sorted)]
                /\ end_date' = [end_date EXCEPT ![i] = MaxEndDate(sorted)]
                /\ pc' = [pc EXCEPT ![i] = "loop"]
    /\ UNCHANGED other_calls
    /\ UNCHANGED <<entry, user_id, db_rows, fetch_failed, result, http_status>>

\* what one pass of the loop body appends for day d
DayResult(sorted, d) ==
    LET day_bookings == DayBookings(sorted, d)
    IN  IF day_bookings = <<>>
        THEN [raised |-> FALSE, slots |-> <<FreeDaySlot>>]
        ELSE find_daily_free_slots(day_bookings)

\* variant: free_slots is one list that all the invocations append to
DaySharedSlots(i) ==
    /\ pc[i] = "loop"
    /\ LoopContinues(current_date[i], end_date[i])
    /\ LET r == DayResult(sorted_bookings[i], current_date[i])
       IN  IF r.raised
           THEN /\ pc' = [pc EXCEPT ![i] = "raised"]
                /\ UNCHANGED <<free_slots, slot_day, current_date>>
           ELSE /\ free_slots' = [j \in Inv |-> free_slots[j] \o r.slots]
                /\ slot_day' =
                       [j \in Inv |-> slot_day[j] \o
                            [k \in 1..Len(r.slots) |-> current_date[i]]]
                /\ current_date' =
                       [current_date EXCEPT ![i] = current_date[i] + 1]
                /\ UNCHANGED pc
    /\ UNCHANGED other_calls
    /\ UNCHANGED <<entry, user_id, db_rows, fetch_failed, bookings,
                   sorted_bookings, end_date, result, http_status>>

\* lines 108-124: one pass of the day loop
Day(i) ==
    /\ pc[i] = "loop"
    /\ LoopContinues(current_date[i], end_date[i])
    /\ LET r == DayResult(sorted_bookings[i], current_date[i])
       IN  IF r.raised
           THEN /\ pc' = [pc EXCEPT ![i] = "raised"]
                /\ UNCHANGED <<free_slots, slot_day, current_date>>
           ELSE /\ free_slots' =
                       [free_slots EXCEPT ![i] = free_slots[i] \o r.slots]
                /\ slot_day' =
                       [slot_day EXCEPT ![i] = slot_day[i] \o
                            [k \in 1..Len(r.slots) |-> current_date[i]]]
                /\ current_date' =
                       [current_date EXCEPT ![i] = current_date[i] + 1]
                /\ UNCHANGED pc
    /\ UNCHANGED other_calls
    /\ UNCHANGED <<entry, user_id, db_rows, fetch_failed, bookings,
                   sorted_bookings, end_date, result, http_status>>

\* line 126: the loop is over, free_slots is returned
Return(i) ==
    /\ pc[i] = "loop"
    /\ ~LoopContinues(current_date[i], end_date[i])
    /\ pc' = [pc EXCEPT ![i] = "returned"]
    /\ UNCHANGED other_calls
    /\ UNCHANGED <<entry, user_id, db_rows, fetch_failed, bookings,
                   sorted_bookings, current_date, end_date, free_slots,
                   slot_day, result, http_status>>

(***************************************************************************)
(* analyze_user_itinerary, after the analyzer                              *)
(***************************************************************************)
SlotDict(slot) == slot

\* generate_contextual_message: fixed text when there is no slot, else
\* the generated text or, when the generation fails, the fallback text
Messages(slots) ==
    IF slots = <<>> THEN {"no free time"} ELSE {"generated", "fallback"}

\* lines 292-311: the response dict
BuildResponse(i) ==
    /\ pc[i] = "returned"
    /\ entry[i] = "http"
    /\ \E m \in Messages(free_slots[i]) :
          result' = [result EXCEPT ![i] =
              [user_id |-> user_id[i],
               total_bookings |-> Len(bookings[i]),
               free_time_slots |->
                   [k \in 1..Len(free_slots[i]) |-> SlotDict(free_slots[i][k])],
               contextual_message |-> m,
               bookings |-> bookings[i]]]
    /\ pc' = [pc EXCEPT ![i] = "result"]
    /\ UNCHANGED other_calls
    /\ UNCHANGED <<entry, user_id, db_rows, fetch_failed, bookings,
                   sorted_bookings, current_date, end_date, free_slots,
                   slot_day, http_status>>

\* lines 312-318: any exception becomes the error dict
Except(i) ==
    /\ pc[i] = "raised"
    /\ entry[i] = "http"
    /\ result' = [result EXCEPT ![i] =
           [error |-> "Failed to analyze itinerary",
            user_id |-> user_id[i],
            free_time_slots |-> <<>>,
            contextual_message |-> "unable"]]
    /\ pc' = [pc EXCEPT ![i] = "result"]
    /\ UNCHANGED other_calls
    /\ UNCHANGED <<entry, user_id, db_rows, fetch_failed, bookings,
                   sorted_bookings, current_date, end_date, free_slots,
                   slot_day, http_status>>

\* variant: the test looks for a "status" key
HasStatusKey(res) == "status" \in DOMAIN res

\* main.py 100-107: 500 when the dict has an "error" key, else success
HasError(res) == "error" \in DOMAIN res

Respond(i) ==
    /\ pc[i] = "result"
    /\ http_status' =
           [http_status EXCEPT ![i] = IF HasError(result[i]) THEN 500 ELSE 200]
    /\ pc' = [pc EXCEPT ![i] = "responded"]
    /\ UNCHANGED other_calls
    /\ UNCHANGED <<entry, user_id, db_rows, fetch_failed, bookings,
                   sorted_bookings, current_date, end_date, free_slots,
                   slot_day, result>>

Step(i) ==
    \/ Validate(i)
    \/ FetchRows(i)
    \/ FetchFails(i)
    \/ Call(i)
    \/ Day(i)
    \/ Return(i)
    \/ BuildResponse(i)
    \/ Except(i)
    \/ Respond(i)

Next == \E i \in Inv : Step(i)

Spec == Init /\ [][Next]_vars

(***************************************************************************)
(* Two direct calls of the analyzer, the second on a permutation of the    *)
(* first one's list.                                                       *)
(***************************************************************************)
Perms(k) ==
    {f \in [1..k -> 1..k] : \A a, b \in 1..k : a # b => f[a] # f[b]}

InitPermOf(S, n) ==
    \E k \in 0..n : \E bks \in [1..k -> S] : \E f \in Perms(k) :
        Begin([i \in Inv |->
                  IF i = 1 THEN DirectCall(bks)
                  ELSE DirectCall([j \in 1..k |-> bks[f[j]]])])

InitPerm ==
    \/ InitPermOf(DayBookingSet, MaxDayBookings)
    \/ InitPermOf(OddBookingSet, MaxDayBookings)
    \/ InitPermOf(TripBookingSet, MaxTripBookings)

AnalyzerStep(i) ==
    \/ Call(i)
    \/ Day(i)
    \/ Return(i)

NextAnalyzer == \E i \in Inv : AnalyzerStep(i)

SpecPerm == InitPerm /\ [][NextAnalyzer]_vars

(***************************************************************************)
(* Two calls of the analyzer on lists that agree, position by position,    *)
(* on the dates and the times and differ in what describes the bookings.   *)
(***************************************************************************)
\* bookings of one or two days, all described alike
PlainBookingSet ==
    [start_date : {1}, end_date : {1, 2}, start_time : {T1000, T1500},
     end_time : {T1600}, booking_type : {"activity"}, title : {"City tour"}]

\* booking_type and title of the rows of the three booking tables
Descriptions ==
    {[booking_type |-> "activity", title |-> "City tour"],
     [booking_type |-> "hotel", title |-> "Grand Hotel"],
     [booking_type |-> "flight", title |-> "AB 123"]}

Described(b, desc) ==
    [b EXCEPT !.booking_type = desc.booking_type, !.title = desc.title]

InitTypes ==
    \E k \in 0..MaxTypedBookings :
        \E bks \in [1..k -> PlainBookingSet] :
            \E desc \in [1..k -> Descriptions] :
                Begin([i \in Inv |->
                          IF i = 1 THEN DirectCall(bks)
                          ELSE DirectCall([j \in 1..k |->
                                              Described(bks[j], desc[j])])])

SpecTypes == InitTypes /\ [][NextAnalyzer]_vars

(***************************************************************************)
(* Two calls of the analyzer that run at the same time, each on a list of  *)
(* its own; their steps interleave in every way.                           *)
(***************************************************************************)
\* a stay of one or two days, an activity, an activity without start_time
ConcurrentBookingSet ==
    [start_date : {1}, end_date : {1, 2}, start_time : {T1400},
     end_time : {T1100}, booking_type : {"hotel"}]
    \cup
    [start_date : {1}, end_date : {1}, start_time : {T1000, None},
     end_time : {T1100}, booking_type : {"activity"}]

InitConcurrent ==
    \E k1, k2 \in 0..MaxConcurrentBookings :
        \E a \in [1..k1 -> ConcurrentBookingSet] :
            \E b \in [1..k2 -> ConcurrentBookingSet] :
                Begin([i \in Inv |->
                          IF i = 1 THEN DirectCall(a) ELSE DirectCall(b)])

SpecConcurrent == InitConcurrent /\ [][NextAnalyzer]_vars

(***************************************************************************)
(* Two calls of the analyzer one after the other with the same list        *)
(* object.  The second call starts in what the first one left: its list    *)
(* as it is after the first call, and every name the code does not bind    *)
(* anew still bound to the first call's value.                             *)
(***************************************************************************)
InitTwice ==
    \/ InitCall(OddBookingSet, MaxDayBookings)
    \/ InitCall(TripBookingSet, MaxTripBookings)
    \/ InitCall(BusyBookingSet, MaxBusyBookings)

Finished(i) == pc[i] \in {"returned", "raised"}

\* the caller calls analyze_free_time_slots again
Rerun ==
    /\ Finished(1)
    /\ pc[2] = "off"
    /\ entry' = [entry EXCEPT ![2] = "call"]
    /\ bookings' = [bookings EXCEPT ![2] = bookings[1]]
    /\ sorted_bookings' = [sorted_bookings EXCEPT ![2] = sorted_bookings[1]]
    /\ current_date' = [current_date EXCEPT ![2] = current_date[1]]
    /\ end_date' = [end_date EXCEPT ![2] = end_date[1]]
    /\ free_slots' = [free_slots EXCEPT ![2] = free_slots[1]]
    /\ slot_day' = [slot_day EXCEPT ![2] = slot_day[1]]
    /\ pc' = [pc EXCEPT ![2] = "analyze"]
    /\ UNCHANGED other_calls
    /\ UNCHANGED <<user_id, db_rows, fetch_failed, result, http_status>>

NextTwice ==
    \/ NextAnalyzer
    \/ Rerun

SpecTwice == InitTwice /\ [][NextTwice]_vars

(***************************************************************************)
(* Calls of time_to_minutes and minutes_to_time on their own: one          *)
(* conversion, or one conversion applied to what the other returned.       *)
(***************************************************************************)
Hours == 0..23
MinutesOfHour == 0..59

Pad2(n) == <<DigitChars[(n \div 10) + 1], DigitChars[(n % 10) + 1]>>

\* the zero-padded 24-hour strings HH:MM
PaddedTime(h, m) == PyStr(Pad2(h) \o <<":">> \o Pad2(m))
PaddedTimes == {PaddedTime(h, m) : h \in Hours, m \in MinutesOfHour}

\* values that are not zero-padded HH:MM: None, text, the empty str, hours
\* or minutes out of range, missing or extra characters, unpadded fields
OddInputs ==
    {PyNone,
     PyStr(<<"z", "z">>),
     PyStr(<<>>),
     PyStr(<<"2", "4", ":", "0", "0">>),
     PyStr(<<"1", "2", ":", "6", "0">>),
     PyStr(<<"1", "2", "0", "0">>),
     PyStr(<<"1", "2", ":">>),
     PyStr(<<":", "3", "0">>),
     PyStr(<<"0", "1", "2", ":", "3", "0">>),
     PyStr(<<"1", "2", ":", "3", "4", "5">>),
     PyStr(<<"1", "2", ":", "z", "0">>),
     PyStr(<<"9", ":", "3", "0">>),
     PyStr(<<"0", "9", ":", "5">>)}

Chain(fns, v) == [todo |-> fns, input |-> v]
NoChain == Chain(<<>>, NoValue)

BeginConversions(c) ==
    /\ Frames([i \in Inv |-> Idle])
    /\ NoSpeech
    /\ conv_input = [i \in Inv |-> c[i].input]
    /\ conv_value = [i \in Inv |-> c[i].input]
    /\ conv_todo = [i \in Inv |-> c[i].todo]

Chains ==
    {Chain(<<"time_to_minutes">>, v) : v \in PaddedTimes \cup OddInputs}
    \cup {Chain(<<"time_to_minutes", "minutes_to_time">>, v) :
              v \in PaddedTimes}
    \cup {Chain(<<"minutes_to_time", "time_to_minutes">>, PyInt(m)) :
              m \in 0..MaxMinutes}

InitConversions ==
    \E c \in Chains : BeginConversions([i \in Inv |-> IF i = 1 THEN c ELSE NoChain])

CallTimeToMinutes(i) ==
    /\ conv_todo[i] # <<>>
    /\ Head(conv_todo[i]) = "time_to_minutes"
    /\ conv_value' = [conv_value EXCEPT ![i] = time_to_minutes_of(conv_value[i])]
    /\ conv_todo' = [conv_todo EXCEPT ![i] = Tail(conv_todo[i])]
    /\ UNCHANGED <<conv_input, tts_pc, speech_key, backup_key, output_format,
                   primary_tries, backup_tries, tts_return>>
    /\ UNCHANGED analysis

CallMinutesToTime(i) ==
    /\ conv_todo[i] # <<>>
    /\ Head(conv_todo[i]) = "minutes_to_time"
    /\ conv_value[i].type = "int"
    /\ conv_value' = [conv_value EXCEPT ![i] = minutes_to_time(conv_value[i])]
    /\ conv_todo' = [conv_todo EXCEPT ![i] = Tail(conv_todo[i])]
    /\ UNCHANGED <<conv_input, tts_pc, speech_key, backup_key, output_format,
                   primary_tries, backup_tries, tts_return>>
    /\ UNCHANGED analysis

ConversionStep(i) ==
    \/ CallTimeToMinutes(i)
    \/ CallMinutesToTime(i)

NextConversions == \E i \in Inv : ConversionStep(i)

SpecConversions == InitConversions /\ [][NextConversions]_vars

(***************************************************************************)
(* The day loop on lists of stays, with bookings whose end_date precedes   *)
(* their start_date among them.  A call that has begun runs on: the loop   *)
(* is sequential code, so a step that can be taken is taken.               *)
(***************************************************************************)
InitLoop == InitCall(TripBookingSet, MaxTripBookings)

SpecLoop == InitLoop /\ [][NextAnalyzer]_vars /\ WF_vars(NextAnalyzer)

(***************************************************************************)
(* Two times compared as strings and as minutes: the two invocations       *)
(* convert one zero-padded time each; or the analyzer runs on a busy day,  *)
(* where find_daily_free_slots compares the strings and subtracts the      *)
(* minutes.                                                                *)
(***************************************************************************)
ComparedMinutes == {0, 30, 59}

ComparedTimes == {PaddedTime(h, m) : h \in Hours, m \in ComparedMinutes}

InitCompare ==
    \/ \E a \in ComparedTimes, b \in ComparedTimes :
           BeginConversions([i \in Inv |->
               Chain(<<"time_to_minutes">>, IF i = 1 THEN a ELSE b)])
    \/ InitCall(BusyBookingSet, MaxBusyBookings)

NextCompare ==
    \/ \E i \in Inv : CallTimeToMinutes(i)
    \/ NextAnalyzer

SpecCompare == InitCompare /\ [][NextCompare]_vars

(***************************************************************************)
(* tts_service.text_to_speech, one call.  The environment holds or lacks   *)
(* SPEECH_KEY and SPEECH_KEY_BACKUP; the speech service answers each       *)
(* synthesis with a reason, or the SDK raises.  primary_tries records how  *)
(* the try block ended, backup_tries each synthesis with the backup key.   *)
(***************************************************************************)
\* os.getenv: None when the variable is not set
EnvValues == {None, "", "key"}

Formats == {"wav", "MP3", "ogg", None}

\* what the service or the SDK does with one synthesis
Outcomes == {"Completed", "Canceled", "Other", "raised"}

\* Python's truth value of an environment value
Truthy(k) == k # None /\ k # ""

\* output_format.lower() raises AttributeError on None
LowerRaises(f) == IsNone(f)

InitTts ==
    /\ Frames([i \in Inv |-> Idle])
    /\ NoConversion
    /\ tts_pc = "start"
    /\ speech_key \in EnvValues
    /\ backup_key \in EnvValues
    /\ output_format \in Formats
    /\ primary_tries = <<>>
    /\ backup_tries = <<>>
    /\ tts_return = "none yet"

\* variant: a canceled synthesis is handled like an exception
PrimaryGoesToHandlerOnCancel(outcome) ==
    IF outcome \in {"raised", "Canceled"} THEN "handler" ELSE "done"

\* lines 77-93: an exception goes to the except clause, a result returns
PrimaryGoesTo(outcome) == IF outcome = "raised" THEN "handler" ELSE "done"

\* lines 79-91: the audio of a completed synthesis, else None
PrimaryReturns(outcome) ==
    CASE outcome = "Completed" -> "primary audio"
      [] outcome \in {"Canceled", "Other"} -> None
      [] OTHER -> "none yet"

\* lines 36-72: the key, the configuration, the synthesizer
TtsConfigure ==
    /\ tts_pc = "start"
    /\ IF ~Truthy(speech_key)
       THEN /\ tts_pc' = "done"
            /\ tts_return' = None
            /\ primary_tries' = Append(primary_tries, "no key")
       ELSE /\ UNCHANGED tts_return
            /\ \E sdk_raises \in BOOLEAN :
                  IF sdk_raises \/ LowerRaises(output_format)
                  THEN /\ tts_pc' = "handler"
                       /\ primary_tries' = Append(primary_tries, "raised")
                  ELSE /\ tts_pc' = "configured"
                       /\ UNCHANGED primary_tries
    /\ UNCHANGED <<speech_key, backup_key, output_format, backup_tries>>
    /\ UNCHANGED <<conv_input, conv_value, conv_todo>>
    /\ UNCHANGED analysis

\* lines 77-91: the synthesis with the primary key
TtsSynthesize ==
    /\ tts_pc = "configured"
    /\ \E outcome \in Outcomes :
          /\ primary_tries' = Append(primary_tries, outcome)
          /\ tts_pc' = PrimaryGoesTo(outcome)
          /\ tts_return' = IF PrimaryGoesTo(outcome) = "done"
                           THEN PrimaryReturns(outcome)
                           ELSE tts_return
    /\ UNCHANGED <<speech_key, backup_key, output_format, backup_tries>>
    /\ UNCHANGED <<conv_input, conv_value, conv_todo>>
    /\ UNCHANGED analysis

\* lines 93-126: the except clause; with a backup key one more synthesis,
\* whose exception the inner except clause swallows
TtsExcept ==
    /\ tts_pc = "handler"
    /\ IF Truthy(backup_key)
       THEN \E outcome \in Outcomes :
               /\ backup_tries' = Append(backup_tries, outcome)
               /\ tts_return' = IF outcome = "Completed"
                                THEN "backup audio" ELSE None
       ELSE /\ tts_return' = None
            /\ UNCHANGED backup_tries
    /\ tts_pc' = "done"
    /\ UNCHANGED <<speech_key, backup_key, output_format, primary_tries>>
    /\ UNCHANGED <<conv_input, conv_value, conv_todo>>
    /\ UNCHANGED analysis

NextTts ==
    \/ TtsConfigure
    \/ TtsSynthesize
    \/ TtsExcept

SpecTts == InitTts /\ [][NextTts]_vars

(***************************************************************************)
(* Properties                                                              *)
(***************************************************************************)
Max(a, b) == IF a >= b THEN a ELSE b
Min(a, b) == IF a <= b THEN a ELSE b

WellFormed(b) == WellFormedTime(b.start_time) /\ WellFormedTime(b.end_time)
AllWellFormed(bks) == \A j \in 1..Len(bks) : WellFormed(bks[j])
DatesInOrder(bks) == \A j \in 1..Len(bks) : bks[j].start_date <= bks[j].end_date

\* a booking that ends after it starts: on a later day, or on the same day
\* at the same or a later time
EndsAfterStart(b) ==
    \/ b.start_date < b.end_date
    \/ /\ b.start_date = b.end_date
       /\ Minutes(b.start_time) <= Minutes(b.end_time)

\* well-formed times, and no booking that ends before it starts
Plausible(bks) ==
    /\ AllWellFormed(bks)
    /\ \A j \in 1..Len(bks) : EndsAfterStart(bks[j])

\* b occupies day d
Occupies(b, d) == b.start_date <= d /\ d <= b.end_date

\* the minutes of day d that booking b occupies: from its start_time on
\* its first day, up to its end_time on its last day, the whole day between
BookedFrom(b, d) == IF b.start_date = d THEN Minutes(b.start_time) ELSE 0
BookedTo(b, d) == IF b.end_date = d THEN Minutes(b.end_time) ELSE 24 * 60

\* the slot, cut to 09:00-22:00, shares more than an instant with b on day d
SlotOverlaps(slot, b, d) ==
    Max(Max(Minutes(slot.start_time), 9 * 60), BookedFrom(b, d))
        < Min(Min(Minutes(slot.end_time), 22 * 60), BookedTo(b, d))

\* C1: no free slot emitted for a day overlaps, within 09:00-22:00, the
\* interval of a booking active on that day (stated for lists whose times
\* are well-formed HH:MM and whose bookings end after they start).
C1_NoSlotOverlapsBooking ==
    \A i \in Inv :
        Plausible(bookings[i]) =>
            \A k \in 1..Len(free_slots[i]) : \A j \in 1..Len(bookings[i]) :
                Occupies(bookings[i][j], slot_day[i][k]) =>
                    ~SlotOverlaps(free_slots[i][k], bookings[i][j],
                                  slot_day[i][k])

\* C2: every slot the analyzer collects, hence every slot it returns, has
\* duration_minutes >= 60, whatever the time strings of the bookings.
C2_MinDuration ==
    \A i \in Inv : \A k \in 1..Len(free_slots[i]) :
        free_slots[i][k].duration_minutes >= 60

\* C2 witness: a call on a list with a malformed time string returned a slot
C2_Witness ==
    \E i \in Inv :
        /\ pc[i] = "returned"
        /\ \E j \in 1..Len(bookings[i]) :
              bookings[i][j].start_time = Malformed
        /\ free_slots[i] # <<>>

\* C3: when every booking has well-formed times, every emitted slot starts
\* at or after 09:00 and ends at or before 22:00.
C3_SlotsWithinDayWindow ==
    \A i \in Inv :
        AllWellFormed(bookings[i]) =>
            \A k \in 1..Len(free_slots[i]) :
                /\ Minutes(free_slots[i][k].start_time) >= 9 * 60
                /\ Minutes(free_slots[i][k].end_time) <= 22 * 60

\* the slots emitted for day d, in order of emission
RECURSIVE SlotsOfDay(_, _, _)
SlotsOfDay(slots, days, d) ==
    IF slots = <<>> THEN <<>>
    ELSE (IF Head(days) = d THEN <<Head(slots)>> ELSE <<>>)
             \o SlotsOfDay(Tail(slots), Tail(days), d)

FirstDay(bks) ==
    CHOOSE d \in Dates :
        /\ \E j \in 1..Len(bks) : bks[j].start_date = d
        /\ \A j \in 1..Len(bks) : bks[j].start_date >= d

LastDay(bks) ==
    CHOOSE d \in Dates :
        /\ \E j \in 1..Len(bks) : bks[j].end_date = d
        /\ \A j \in 1..Len(bks) : bks[j].end_date <= d

NoBookingOn(bks, d) == \A j \in 1..Len(bks) : ~Occupies(bks[j], d)

IsFreeDaySlot(slot) ==
    /\ slot.start_time = "09:00"
    /\ slot.end_time = "18:00"
    /\ slot.duration_minutes = 540
    /\ slot.context = "Free day - no bookings scheduled"

\* C4: in the returned sequence, each day of the trip span without an
\* active booking has exactly one slot, the free-day slot 09:00-18:00 of
\* 540 minutes, and no slot of any other day carries the free-day context.
C4_FreeDay ==
    \A i \in Inv :
        (pc[i] = "returned" /\ bookings[i] # <<>>) =>
            /\ \A d \in FirstDay(bookings[i])..LastDay(bookings[i]) :
                  NoBookingOn(bookings[i], d) =>
                      LET s == SlotsOfDay(free_slots[i], slot_day[i], d)
                      IN  Len(s) = 1 /\ IsFreeDaySlot(s[1])
            /\ \A k \in 1..Len(free_slots[i]) :
                  free_slots[i][k].context = "Free day - no bookings scheduled"
                      => /\ slot_day[i][k] \in
                                FirstDay(bookings[i])..LastDay(bookings[i])
                         /\ NoBookingOn(bookings[i], slot_day[i][k])

\* C4 witness: a returned sequence with a free-day slot between the slots
\* of two booked days
C4_Witness ==
    \E i \in Inv :
        /\ pc[i] = "returned"
        /\ \E k \in 2..(Len(free_slots[i]) - 1) :
              /\ IsFreeDaySlot(free_slots[i][k])
              /\ ~IsFreeDaySlot(free_slots[i][k - 1])
              /\ ~IsFreeDaySlot(free_slots[i][k + 1])

\* C5: for lists with start_date <= end_date (well-formed times, no
\* booking ending before it starts; a stay may check in at 14:00 and check
\* out on a later day at 11:00), the slots of one day are in chronological
\* order and do not overlap: each starts at or after the end of the slot
\* emitted before it for that day.
C5_DaySlotsChronological ==
    \A i \in Inv :
        (DatesInOrder(bookings[i]) /\ Plausible(bookings[i])) =>
            \A k \in 1..(Len(free_slots[i]) - 1) :
                slot_day[i][k] = slot_day[i][k + 1] =>
                    Minutes(free_slots[i][k + 1].start_time)
                        >= Minutes(free_slots[i][k].end_time)

\* the per-day result for day d: the free-day slot when no booking
\* occupies d, else the detector's output on the bookings that occupy d
ExpectedForDay(bks, d) ==
    LET occupying == SelectSeq(SortedBookings(bks), LAMBDA b : Occupies(b, d))
    IN  IF occupying = <<>>
        THEN <<[start_time |-> "09:00",
                end_time |-> "18:00",
                duration_minutes |-> 540,
                context |-> "Free day - no bookings scheduled"]>>
        ELSE find_daily_free_slots(occupying).slots

RECURSIVE ExpectedFrom(_, _, _)
ExpectedFrom(bks, d, last) ==
    IF d > last THEN <<>>
    ELSE ExpectedForDay(bks, d) \o ExpectedFrom(bks, d + 1, last)

\* C6: for a non-empty list the returned sequence is the concatenation,
\* for d = min(start_date) .. max(end_date) ascending, of the per-day
\* result: the free-day slot, or the detector's output on the bookings
\* with start_date <= d <= end_date.
C6_ConcatenationOfDays ==
    \A i \in Inv :
        (pc[i] = "returned" /\ bookings[i] # <<>>) =>
            free_slots[i] = ExpectedFrom(bookings[i], FirstDay(bookings[i]),
                                         LastDay(bookings[i]))

\* C6 witness: a three-day trip booked on days 1 and 3 only has returned
\* slots for day 1, then day 2, then day 3
C6_Witness ==
    \E i \in Inv :
        /\ pc[i] = "returned"
        /\ bookings[i] # <<>>
        /\ NoBookingOn(bookings[i], 2)
        /\ \E a, b, c \in 1..Len(slot_day[i]) :
              /\ a < b /\ b < c
              /\ slot_day[i][a] = 1
              /\ slot_day[i][b] = 2
              /\ slot_day[i][c] = 3

\* C7: the returned sequence does not depend on the order of the input:
\* a call on a permutation of the list returns the same sequence (stated
\* for lists with well-formed times and no booking ending before it starts).
C7_OrderIndependent ==
    (pc[1] = "returned" /\ pc[2] = "returned" /\ Plausible(bookings[1]))
        => free_slots[1] = free_slots[2]

StartBounded(slot) ==
    slot.context \in {"Morning free time", "Gap between bookings"}
EndBounded(slot) ==
    slot.context \in {"Gap between bookings", "Evening free time"}

\* C8: a start_time bounds a slot only on the booking's start_date and an
\* end_time only on its end_date: a slot of day d that ends at a booking's
\* start is the start of a booking that starts on d, and a slot of day d
\* that begins at a booking's end is the end of a booking that ends on d.
C8_TimesOnlyOnOwnDay ==
    \A i \in Inv : \A k \in 1..Len(free_slots[i]) :
        LET slot == free_slots[i][k]
            d == slot_day[i][k]
        IN  /\ StartBounded(slot) =>
                  \E j \in 1..Len(bookings[i]) :
                      /\ bookings[i][j].start_date = d
                      /\ bookings[i][j].start_time = slot.end_time
            /\ EndBounded(slot) =>
                  \E j \in 1..Len(bookings[i]) :
                      /\ bookings[i][j].end_date = d
                      /\ bookings[i][j].end_time = slot.start_time

\* C9: analyze_free_time_slots never raises, also when a start_time or
\* end_time is a malformed string or None.
C9_NeverRaises == \A i \in Inv : pc[i] # "raised"

\* C10: a request whose booking fetch failed is answered with an error
\* (HTTP 500), not with a success.
C10_FetchFailureSurfaced ==
    \A i \in Inv :
        (fetch_failed[i] /\ pc[i] = "responded") => http_status[i] = 500

\* the days whose pass of the loop is over
DoneDays(i) == 1..(current_date[i] - 1)

\* the positions of the bookings of the list that occupy day d
OccupyingOn(bks, d) == {j \in 1..Len(bks) : Occupies(bks[j], d)}

WithContext(slots, c) == SelectSeq(slots, LAMBDA x : x.context = c)

\* the slots of invocation i for day d that carry context c
DaySlotsWith(i, d, c) ==
    WithContext(SlotsOfDay(free_slots[i], slot_day[i], d), c)

\* C11: for every day the loop has passed that has an active booking, with
\* s the smallest start_time (str order) of the day's bookings: when
\* s > "09:00" and minutes(s) - 540 >= 60 the day has exactly one morning
\* slot, 09:00 -> s of minutes(s) - 540 minutes, and otherwise it has none.
C11_MorningSlot ==
    \A i \in Inv : \A d \in DoneDays(i) :
        LET starts == {bookings[i][j].start_time :
                          j \in OccupyingOn(bookings[i], d)}
            morning == DaySlotsWith(i, d, "Morning free time")
        IN  starts # {} =>
                LET s == CHOOSE t \in starts : \A u \in starts : ~Lt(u, t)
                IN  IF Lt("09:00", s) /\ Minutes(s) - 540 >= 60
                    THEN morning = <<[start_time |-> "09:00",
                                      end_time |-> s,
                                      duration_minutes |-> Minutes(s) - 540,
                                      context |-> "Morning free time"]>>
                    ELSE morning = <<>>

\* C11 witness: a call on a single booking that starts at 09:30 returned an
\* evening slot and no morning slot
C11_Witness ==
    \E i \in Inv :
        /\ pc[i] = "returned"
        /\ Len(bookings[i]) = 1
        /\ bookings[i][1].start_time = "09:30"
        /\ free_slots[i] # <<>>
        /\ DaySlotsWith(i, 1, "Morning free time") = <<>>

\* the bookings of the list that occupy day d, sorted by start_time as the
\* detector sorts them
DayList(bks, d) ==
    DaySorted(SelectSeq(SortedBookings(bks), LAMBDA b : Occupies(b, d)))

\* a free hour or more lies between the end of a and the start of b
HourBetween(a, b) ==
    /\ Lt(a.end_time, b.start_time)
    /\ Minutes(b.start_time) - Minutes(a.end_time) >= 60

\* the gap slots of the consecutive pairs of b, from position k on
RECURSIVE ConsecutiveGaps(_, _)
ConsecutiveGaps(b, k) ==
    IF k >= Len(b) THEN <<>>
    ELSE (IF HourBetween(b[k], b[k + 1])
          THEN <<[start_time |-> b[k].end_time,
                  end_time |-> b[k + 1].start_time,
                  duration_minutes |->
                      Minutes(b[k + 1].start_time) - Minutes(b[k].end_time),
                  context |-> "Gap between bookings"]>>
          ELSE <<>>) \o ConsecutiveGaps(b, k + 1)

\* C12: for every day the loop has passed that has an active booking, the
\* gap slots of the day are, in order, one slot b[k].end_time ->
\* b[k+1].start_time for each consecutive pair of the day's bookings sorted
\* by start_time with b[k].end_time < b[k+1].start_time and at least 60
\* minutes between them, and nothing else (no slot for a pair that is not
\* consecutive).
C12_GapSlots ==
    \A i \in Inv : \A d \in DoneDays(i) :
        OccupyingOn(bookings[i], d) # {} =>
            DaySlotsWith(i, d, "Gap between bookings")
                = ConsecutiveGaps(DayList(bookings[i], d), 1)

\* C12 witness: a call on three bookings of one day, the first and the
\* third more than an hour apart, returned two gap slots, neither of them
\* from the end of the first to the start of the third
C12_Witness ==
    \E i \in Inv :
        /\ pc[i] = "returned"
        /\ Len(bookings[i]) = 3
        /\ LET b == DayList(bookings[i], 1)
               gaps == DaySlotsWith(i, 1, "Gap between bookings")
           IN  /\ Len(b) = 3
               /\ HourBetween(b[1], b[3])
               /\ Len(gaps) = 2
               /\ \A k \in 1..2 :
                      ~(/\ gaps[k].start_time = b[1].end_time
                        /\ gaps[k].end_time = b[3].start_time)

\* C13: for every day the loop has passed that has an active booking, with
\* e the end_time of the booking that is last in start_time order: when
\* e < "22:00" and 1320 - minutes(e) >= 60 the day has exactly one evening
\* slot, e -> 22:00 of 1320 - minutes(e) minutes, and otherwise it has none.
C13_EveningSlot ==
    \A i \in Inv : \A d \in DoneDays(i) :
        OccupyingOn(bookings[i], d) # {} =>
            LET b == DayList(bookings[i], d)
                e == b[Len(b)].end_time
                evening == DaySlotsWith(i, d, "Evening free time")
            IN  IF Lt(e, "22:00") /\ 1320 - Minutes(e) >= 60
                THEN evening = <<[start_time |-> e,
                                  end_time |-> "22:00",
                                  duration_minutes |-> 1320 - Minutes(e),
                                  context |-> "Evening free time"]>>
                ELSE evening = <<>>

\* C13 witness: a call on two bookings of one day with different end
\* times returned the evening slot that starts at the end of the one that
\* is last in start_time order
C13_Witness ==
    \E i \in Inv :
        /\ pc[i] = "returned"
        /\ Len(bookings[i]) = 2
        /\ LET b == DayList(bookings[i], 1)
               evening == DaySlotsWith(i, 1, "Evening free time")
           IN  /\ Len(b) = 2
               /\ b[1].end_time # b[2].end_time
               /\ Len(evening) = 1
               /\ evening[1].start_time = b[2].end_time

\* two bookings of the same single day, b1 before b2, inside 09:00-22:00,
\* with an hour or more before, between and after them
SpacedPair(b1, b2) ==
    /\ WellFormed(b1) /\ WellFormed(b2)
    /\ b1.end_date = b1.start_date
    /\ b2.start_date = b1.start_date
    /\ b2.end_date = b1.start_date
    /\ Minutes(b1.start_time) <= Minutes(b1.end_time)
    /\ Minutes(b2.start_time) <= Minutes(b2.end_time)
    /\ Minutes(b1.start_time) - 9 * 60 >= 60
    /\ Minutes(b2.start_time) - Minutes(b1.end_time) >= 60
    /\ 22 * 60 - Minutes(b2.end_time) >= 60

ThreeSlots(b1, b2) ==
    <<[start_time |-> "09:00", end_time |-> b1.start_time,
       duration_minutes |-> Minutes(b1.start_time) - 9 * 60,
       context |-> "Morning free time"],
      [start_time |-> b1.end_time, end_time |-> b2.start_time,
       duration_minutes |-> Minutes(b2.start_time) - Minutes(b1.end_time),
       context |-> "Gap between bookings"],
      [start_time |-> b2.end_time, end_time |-> "22:00",
       duration_minutes |-> 22 * 60 - Minutes(b2.end_time),
       context |-> "Evening free time"]>>

\* C14: a call on two bookings s1-e1 and s2-e2 of the same single day, in
\* either input order, with 09:00 < s1 <= e1 < s2 <= e2 < 22:00 and at
\* least 60 minutes (60 included) before s1, between e1 and s2 and after
\* e2, does not raise and returns exactly three slots in this order:
\* Morning 09:00 -> s1, Gap e1 -> s2, Evening e2 -> 22:00, each with its
\* minute difference as duration.
C14_TwoBookingsThreeSlots ==
    \A i \in Inv :
        Len(bookings[i]) = 2 =>
            \A j, k \in 1..2 :
                (j # k /\ SpacedPair(bookings[i][j], bookings[i][k])) =>
                    /\ pc[i] # "raised"
                    /\ pc[i] = "returned" =>
                           free_slots[i]
                               = ThreeSlots(bookings[i][j], bookings[i][k])

\* C14 witness: the call on 15:00-16:00 and 10:00-11:00, passed in that
\* order, returned the slots of 60, 240 and 360 minutes
C14_Witness ==
    \E i \in Inv :
        /\ pc[i] = "returned"
        /\ Len(bookings[i]) = 2
        /\ bookings[i][1].start_time = "15:00"
        /\ bookings[i][1].end_time = "16:00"
        /\ bookings[i][2].start_time = "10:00"
        /\ bookings[i][2].end_time = "11:00"
        /\ Len(free_slots[i]) = 3
        /\ free_slots[i][1].duration_minutes = 60
        /\ free_slots[i][2].duration_minutes = 240
        /\ free_slots[i][3].duration_minutes = 360

\* C15: every collected slot, the free-day slot included, has
\* duration_minutes = minutes(end_time) - minutes(start_time), with
\* minutes the analyzer's time_to_minutes.
C15_DurationIsDifference ==
    \A i \in Inv : \A k \in 1..Len(free_slots[i]) :
        free_slots[i][k].duration_minutes
            = Minutes(free_slots[i][k].end_time)
                  - Minutes(free_slots[i][k].start_time)

\* C15 witness: a returned sequence that holds a free-day slot of 540
\* minutes and a slot cut out of a booked day
C15_Witness ==
    \E i \in Inv :
        /\ pc[i] = "returned"
        /\ \E k \in 1..Len(free_slots[i]) :
              /\ free_slots[i][k].context = "Free day - no bookings scheduled"
              /\ free_slots[i][k].duration_minutes = 540
        /\ \E k \in 1..Len(free_slots[i]) :
              free_slots[i][k].context = "Evening free time"

\* C16: a call on an empty list returns the empty sequence: the call never
\* enters the day loop (the day cursor is never set), it does not raise,
\* and no slot, not even a free-day slot, is collected.
C16_EmptyInput ==
    \A i \in Inv :
        (bookings[i] = <<>> /\ pc[i] \in {"loop", "returned", "raised"}) =>
            /\ pc[i] = "returned"
            /\ free_slots[i] = <<>>
            /\ slot_day[i] = <<>>
            /\ current_date[i] = 0

\* C16 witness: a direct call on the empty list has returned
C16_Witness ==
    \E i \in Inv :
        /\ entry[i] = "call"
        /\ bookings[i] = <<>>
        /\ pc[i] = "returned"
        /\ free_slots[i] = <<>>

\* C17: when the analyzer is called twice, one call after the other, with
\* the same list, the second call ends as the first one did and, when they
\* return, returns the same slot sequence (same slots, same order, same
\* field values), also for a list that is not in sorted order.
C17_SameTwice ==
    (Finished(1) /\ Finished(2)) =>
        /\ pc[2] = pc[1]
        /\ pc[1] = "returned" => free_slots[2] = free_slots[1]

\* C17 witness: both calls returned, on a list that is not in sorted order
\* and yields at least one slot
C17_Witness ==
    /\ pc[1] = "returned"
    /\ pc[2] = "returned"
    /\ bookings[1] # SortedBookings(bookings[1])
    /\ free_slots[2] # <<>>

\* C18: no step of the analyzer changes the list it was called with (same
\* records, same order, same field values), and the response of a request
\* carries, next to the slots, exactly the list the fetch returned.
C18_InputReadOnly ==
    [][\A i \in Inv :
          /\ pc[i] \in {"analyze", "loop"} => bookings'[i] = bookings[i]
          /\ (pc[i] = "returned" /\ pc'[i] = "result") =>
                 /\ result'[i].bookings = bookings[i]
                 /\ bookings[i] = IF fetch_failed[i] THEN <<>> ELSE db_rows[i]
      ]_vars

\* C18 witness: a call on a list that is not in sorted order has returned;
\* the analyzer worked on a sorted copy and the list is as it was passed
C18_Witness ==
    \E i \in Inv :
        /\ entry[i] = "call"
        /\ pc[i] = "returned"
        /\ sorted_bookings[i] # <<>>
        /\ sorted_bookings[i] # bookings[i]

\* C19: two calls on lists that agree position by position on start_date,
\* end_date, start_time and end_time return the same slot sequence,
\* whatever booking_type and title the bookings carry.  (One list has every
\* booking described alike, the other is described freely: two freely
\* described lists both equal the first, hence each other.)
C19_TypeAgnostic ==
    (pc[1] = "returned" /\ pc[2] = "returned") =>
        free_slots[1] = free_slots[2]

\* C19 witness: both calls returned slots, on lists of two bookings of
\* which one is a flight in the second list and an activity in the first
C19_Witness ==
    /\ pc[1] = "returned"
    /\ pc[2] = "returned"
    /\ Len(bookings[1]) = 2
    /\ free_slots[2] # <<>>
    /\ \E j \in 1..2 :
          /\ bookings[2][j].booking_type = "flight"
          /\ bookings[2][j].title # bookings[1][j].title
          /\ bookings[2][j].end_date = 2

\* what the passes of the loop for the days d..last yield when nothing else
\* runs: the slots in order, or a raise
RECURSIVE AloneFrom(_, _, _)
AloneFrom(sorted, d, last) ==
    IF d > last THEN [raised |-> FALSE, slots |-> <<>>]
    ELSE LET r == DayResult(sorted, d)
         IN  IF r.raised THEN [raised |-> TRUE, slots |-> <<>>]
             ELSE LET rest == AloneFrom(sorted, d + 1, last)
                  IN  IF rest.raised THEN rest
                      ELSE [raised |-> FALSE, slots |-> r.slots \o rest.slots]

\* what a call on bks does when it runs alone
Alone(bks) ==
    IF bks = <<>> THEN [raised |-> FALSE, slots |-> <<>>]
    ELSE IF SortedRaises(bks) THEN [raised |-> TRUE, slots |-> <<>>]
    ELSE LET sorted == SortedBookings(bks)
         IN  AloneFrom(sorted, MinStartDate(sorted), MaxEndDate(sorted))

\* C20: when two calls run at the same time on their own lists, under
\* every interleaving of their steps each call ends as it ends alone: it
\* raises exactly when it raises alone, and otherwise returns exactly the
\* slot sequence it returns alone.
C20_NoInterference ==
    \A i \in Inv :
        Finished(i) =>
            /\ (pc[i] = "raised") = Alone(bookings[i]).raised
            /\ pc[i] = "returned" => free_slots[i] = Alone(bookings[i]).slots

\* C20 witness: two calls on different lists have both returned, each its
\* own non-empty sequence
C20_Witness ==
    /\ pc[1] = "returned"
    /\ pc[2] = "returned"
    /\ bookings[1] # bookings[2]
    /\ free_slots[1] # <<>>
    /\ free_slots[2] # <<>>
    /\ free_slots[1] # free_slots[2]

\* every text that strptime("%H:%M") takes: an hour 0..23 and a minute
\* 0..59, each written with one or two digits, with a colon between them
Written(n) == IF n < 10 THEN {Pad2(n), <<DigitChars[n + 1]>>} ELSE {Pad2(n)}
ParsableChars ==
    UNION {{a \o <<":">> \o b : a \in Written(h), b \in Written(m)} :
              h \in Hours, m \in MinutesOfHour}

IsPadded(v) == v \in PaddedTimes
FailsToParse(v) == v.type # "str" \/ v.chars \notin ParsableChars

\* C21: a call time_to_minutes(v) never raises; it returns 60*HH + MM when
\* v is a zero-padded 24-hour string HH:MM, and 0 when v does not parse
\* (None, or a str that is not an hour 0..23, a colon and a minute 0..59).
C21_TimeToMinutes ==
    \A i \in Inv :
        (conv_input[i].type \in {"str", "NoneType"}
             /\ conv_value[i].type \in {"int", "raised"}) =>
            LET v == conv_input[i]
            IN  /\ conv_value[i].type = "int"
                /\ IsPadded(v) =>
                       conv_value[i].value
                           = 60 * (10 * DigitVal(v.chars[1])
                                      + DigitVal(v.chars[2]))
                                 + 10 * DigitVal(v.chars[4])
                                 + DigitVal(v.chars[5])
                /\ FailsToParse(v) => conv_value[i].value = 0

\* C21 witness: the call on None has returned 0
C21_Witness ==
    \E i \in Inv :
        /\ conv_input[i] = PyNone
        /\ conv_todo[i] = <<>>
        /\ conv_value[i] = PyInt(0)

\* place of a context in the order morning, gaps, evening
ContextRank(c) ==
    CASE c = "Morning free time" -> 1
      [] c = "Gap between bookings" -> 2
      [] c = "Evening free time" -> 3
      [] OTHER -> 0

Vocabulary ==
    {"Free day - no bookings scheduled", "Morning free time",
     "Gap between bookings", "Evening free time"}

\* C22: every context is one of the four labels, and for every day the
\* loop has passed that has n >= 1 active bookings the day has at most
\* n + 1 slots: at most one morning slot, then at most n - 1 gap slots,
\* then at most one evening slot, in this order, and no free-day slot.
C22_DaySlotShape ==
    \A i \in Inv :
        /\ \A k \in 1..Len(free_slots[i]) :
              free_slots[i][k].context \in Vocabulary
        /\ \A d \in DoneDays(i) :
              LET n == Cardinality(OccupyingOn(bookings[i], d))
                  s == SlotsOfDay(free_slots[i], slot_day[i], d)
              IN  n >= 1 =>
                      /\ Len(s) <= n + 1
                      /\ \A k \in 1..Len(s) : ContextRank(s[k].context) >= 1
                      /\ \A k \in 1..(Len(s) - 1) :
                             ContextRank(s[k].context)
                                 <= ContextRank(s[k + 1].context)
                      /\ Len(WithContext(s, "Morning free time")) <= 1
                      /\ Len(WithContext(s, "Gap between bookings")) <= n - 1
                      /\ Len(WithContext(s, "Evening free time")) <= 1

\* C22 witness: a day with three bookings has returned four slots, a
\* morning slot, two gap slots and an evening slot
C22_Witness ==
    \E i \in Inv :
        /\ pc[i] = "returned"
        /\ Len(bookings[i]) = 3
        /\ Len(free_slots[i]) = 4
        /\ free_slots[i][1].context = "Morning free time"
        /\ free_slots[i][2].context = "Gap between bookings"
        /\ free_slots[i][3].context = "Gap between bookings"
        /\ free_slots[i][4].context = "Evening free time"

\* both invocations have converted a zero-padded time
BothConverted ==
    \A i \in Inv :
        conv_input[i] \in PaddedTimes /\ conv_todo[i] = <<>>
            /\ conv_value[i].type = "int"

\* the string guards of find_daily_free_slots on the sorted list of a day
\* agree with the sign of the durations, and the list is in minute order
GuardsAgree(day) ==
    LET n == Len(day)
    IN  /\ Lt(DayStart, day[1].start_time)
               <=> Minutes(day[1].start_time) - Minutes(DayStart) > 0
        /\ \A k \in 1..(n - 1) :
               /\ Lt(day[k].end_time, day[k + 1].start_time)
                      <=> Minutes(day[k + 1].start_time)
                              - Minutes(day[k].end_time) > 0
               /\ Minutes(day[k].start_time)
                      <= Minutes(day[k + 1].start_time)
        /\ Lt(day[n].end_time, DayEnd)
               <=> Minutes(DayEnd) - Minutes(day[n].end_time) > 0

\* C23: for zero-padded 24-hour strings a and b, a < b as strings exactly
\* when time_to_minutes(a) < time_to_minutes(b); and on a day whose times
\* are all well-formed and zero-padded, each string guard of the detector
\* passes exactly when the computed duration is positive, and the list
\* sorted by the start_time strings is in the order of the minutes.
C23_StringOrderIsMinuteOrder ==
    /\ BothConverted =>
           (SeqLess(conv_input[1].chars, conv_input[2].chars)
                <=> conv_value[1].value < conv_value[2].value)
    /\ \A i \in Inv :
           (pc[i] \in {"loop", "returned"} /\ AllWellFormed(bookings[i])) =>
               \A d \in DoneDays(i) :
                   LET day == DayList(bookings[i], d)
                   IN  Len(day) >= 1 => GuardsAgree(day)

\* C23 witness: 09:30 and 10:00 have been converted, to 570 and 600
C23_Witness ==
    /\ BothConverted
    /\ conv_input[1] = PaddedTime(9, 30)
    /\ conv_input[2] = PaddedTime(10, 0)
    /\ conv_value[1] = PyInt(570)
    /\ conv_value[2] = PyInt(600)

\* C24: a request is answered with 400, 500 or 200 and nothing else.  It
\* is answered with 400 exactly when user_id <= 0, and then the bookings
\* are never fetched; otherwise the result dict has the "error" key
\* exactly when an exception reached the handler of
\* analyze_user_itinerary, the answer is 500 exactly when the dict has
\* that key, and else it is 200 with the result of the analysis.
C24_ThreeOutcomes ==
    \A i \in Inv :
        entry[i] = "http" =>
            /\ http_status[i] \in {0, 200, 400, 500}
            /\ http_status[i] # 0 <=> pc[i] = "responded"
            /\ user_id[i] <= 0 =>
                   /\ pc[i] \in {"request", "responded"}
                   /\ bookings[i] = <<>> /\ ~fetch_failed[i]
                   /\ result[i] = NoResult
                   /\ http_status[i] \in {0, 400}
            /\ (user_id[i] > 0 /\ pc[i] = "responded") =>
                   /\ HasError(result[i]) <=> Alone(bookings[i]).raised
                   /\ http_status[i] = 500 <=> HasError(result[i])
                   /\ http_status[i] = 200 <=>
                          /\ ~HasError(result[i])
                          /\ result[i] # NoResult
                          /\ result[i].user_id = user_id[i]
                          /\ result[i].bookings = bookings[i]
                          /\ result[i].free_time_slots = Alone(bookings[i]).slots
                   /\ http_status[i] \in {200, 500}

\* C24 witness: the analyzer raised on the fetched rows and the request
\* has been answered with 500
C24_Witness ==
    \E i \in Inv :
        /\ entry[i] = "http"
        /\ pc[i] = "responded"
        /\ user_id[i] > 0
        /\ bookings[i] # <<>>
        /\ HasError(result[i])
        /\ http_status[i] = 500

\* C25: in one call of text_to_speech the backup key is tried at most
\* once, and only after the try block raised; with no SPEECH_KEY, or after
\* a primary synthesis that ended Canceled or with another reason than
\* Completed, the call returns None and the backup key is not tried; audio
\* is returned only after a synthesis that ended Completed; and the call
\* ends by returning, never by raising.
C25_BackupOnlyAfterException ==
    /\ Len(primary_tries) <= 1
    /\ Len(backup_tries) <= 1
    /\ backup_tries # <<>> => primary_tries = <<"raised">>
    /\ tts_pc \in {"start", "configured", "handler", "done"}
    /\ tts_pc = "done" =>
           /\ tts_return \in {None, "primary audio", "backup audio"}
           /\ ~Truthy(speech_key) =>
                  tts_return = None /\ backup_tries = <<>>
           /\ primary_tries \in {<<"Canceled">>, <<"Other">>} =>
                  tts_return = None /\ backup_tries = <<>>
           /\ tts_return = "primary audio" => primary_tries = <<"Completed">>
           /\ tts_return = "backup audio" => backup_tries = <<"Completed">>
    /\ tts_pc # "done" => tts_return = "none yet"

\* C25 witness: the primary synthesis raised, the backup key was tried
\* once and its audio was returned
C25_Witness ==
    /\ tts_pc = "done"
    /\ primary_tries = <<"raised">>
    /\ backup_tries = <<"Completed">>
    /\ tts_return = "backup audio"

\* C26: when the list is not empty and every booking has start_date <=
\* end_date, the first and the last day of the trip span each have an
\* active booking; a free-day slot is emitted only for a day strictly
\* between them, and none is emitted when the span has one or two days.
C26_FreeDaysInsideSpan ==
    \A i \in Inv :
        (pc[i] \in {"loop", "returned"} /\ bookings[i] # <<>>
             /\ DatesInOrder(bookings[i])) =>
            LET first == FirstDay(bookings[i])
                last == LastDay(bookings[i])
            IN  /\ OccupyingOn(bookings[i], first) # {}
                /\ OccupyingOn(bookings[i], last) # {}
                /\ \A k \in 1..Len(free_slots[i]) :
                       IsFreeDaySlot(free_slots[i][k]) =>
                           /\ first < slot_day[i][k]
                           /\ slot_day[i][k] < last
                           /\ last - first + 1 >= 3

\* C26 witness: bookings on day 1 and on day 3 only; the call has
\* returned with one free-day slot, that of day 2
C26_Witness ==
    \E i \in Inv :
        /\ pc[i] = "returned"
        /\ DatesInOrder(bookings[i])
        /\ Len(bookings[i]) = 2
        /\ FirstDay(bookings[i]) = 1
        /\ LastDay(bookings[i]) = 3
        /\ \E k \in 1..Len(free_slots[i]) :
              IsFreeDaySlot(free_slots[i][k]) /\ slot_day[i][k] = 2
        /\ \A k \in 1..Len(free_slots[i]) :
              IsFreeDaySlot(free_slots[i][k]) => slot_day[i][k] = 2

\* the clock interval of booking a ends at or before that of b starts
EndsBefore(a, b) == Minutes(a.end_time) <= Minutes(b.start_time)

\* the bookings with the indices in js have well-formed times, none ends
\* before it starts, and of any two one ends at or before the other starts
Disjoint(bks, js) ==
    /\ \A j \in js :
           /\ WellFormed(bks[j])
           /\ Minutes(bks[j].start_time) <= Minutes(bks[j].end_time)
    /\ \A j \in js : \A k \in js \ {j} :
           EndsBefore(bks[j], bks[k]) \/ EndsBefore(bks[k], bks[j])

\* the slot shares more than an instant with the interior of the clock
\* interval of b
InsideBooking(slot, b) ==
    Max(Minutes(slot.start_time), Minutes(b.start_time))
        < Min(Minutes(slot.end_time), Minutes(b.end_time))

\* C27: on a day whose active bookings have well-formed times with
\* start_time <= end_time and are pairwise non-overlapping, no slot emitted
\* for the day intersects the interior of the interval from start_time to
\* end_time of one of those bookings.
C27_NoSlotInsideBooking ==
    \A i \in Inv :
        \A d \in DoneDays(i) :
            LET js == OccupyingOn(bookings[i], d)
                s == SlotsOfDay(free_slots[i], slot_day[i], d)
            IN  (js # {} /\ Disjoint(bookings[i], js)) =>
                    \A k \in 1..Len(s) : \A j \in js :
                        ~InsideBooking(s[k], bookings[i][j])

\* the passes of the day loop made so far: current_date grows by one day
\* in every pass, from the earliest start_date
Passes(i) == current_date[i] - FirstDay(bookings[i])

\* max(end_date) - min(start_date) + 1
SpanDays(bks) == LastDay(bks) - FirstDay(bks) + 1

\* the loop never makes more passes than the span has days, and when the
\* call has returned it has made exactly that many, none when the number
\* is not positive; then the returned sequence is empty
PassesCounted ==
    \A i \in Inv :
        bookings[i] # <<>> =>
            /\ pc[i] = "loop" => Passes(i) <= Max(0, SpanDays(bookings[i]))
            /\ pc[i] = "returned" =>
                   /\ Passes(i) = Max(0, SpanDays(bookings[i]))
                   /\ SpanDays(bookings[i]) <= 0 => free_slots[i] = <<>>
            /\ pc[i] # "raised"

\* C28: the day loop terminates for every list: the call ends, after
\* exactly max(end_date) - min(start_date) + 1 passes when this number is
\* positive and after none otherwise, so that a non-empty list whose
\* end dates all precede the earliest start_date yields the empty
\* sequence, not an error.
C28_LoopTerminates ==
    /\ []PassesCounted
    /\ <>(pc[1] = "returned")

\* C28 witness: every end_date precedes the earliest start_date, and the
\* call has returned the empty sequence without a pass of the loop
C28_Witness ==
    \E i \in Inv :
        /\ pc[i] = "returned"
        /\ bookings[i] # <<>>
        /\ \A j \in 1..Len(bookings[i]) :
              bookings[i][j].end_date < FirstDay(bookings[i])
        /\ Passes(i) = 0
        /\ free_slots[i] = <<>>

RECURSIVE TotalMinutes(_)
\* the sum of duration_minutes over a slot sequence
TotalMinutes(slots) ==
    IF slots = <<>> THEN 0
    ELSE Head(slots).duration_minutes + TotalMinutes(Tail(slots))

\* C29: for every day with at least one active booking, the durations of
\* the slots emitted for the day add up to at most the 540 minutes
\* reported for a day without bookings.
C29_BookedDayAtMostFreeDay ==
    \A i \in Inv :
        \A d \in DoneDays(i) :
            OccupyingOn(bookings[i], d) # {} =>
                TotalMinutes(SlotsOfDay(free_slots[i], slot_day[i], d))
                    <= FreeDayMinutes

\* C30: minutes_to_time and time_to_minutes undo each other:
\* time_to_minutes(minutes_to_time(m)) = m for every m in 0..1439, and
\* minutes_to_time(time_to_minutes(t)) = t for every zero-padded 24-hour
\* string t.
C30_RoundTrip ==
    \A i \in Inv :
        conv_todo[i] = <<>> =>
            /\ (conv_input[i].type = "int"
                    /\ conv_input[i].value \in 0..(24 * 60 - 1)) =>
                   conv_value[i] = conv_input[i]
            /\ (IsPadded(conv_input[i]) /\ conv_value[i].type = "str") =>
                   conv_value[i] = conv_input[i]

\* C30 witness: 09:05 was converted to 545 and back to 09:05
C30_Witness ==
    \E i \in Inv :
        /\ conv_input[i] = PaddedTime(9, 5)
        /\ conv_todo[i] = <<>>
        /\ conv_value[i] = PaddedTime(9, 5)

====
